---- MODULE Spec2Model ----
(***************************************************************************)
(* BooleanArray of polars-arrow (array/boolean/mod.rs): an immutable,      *)
(* nullable boolean column made of a values Bitmap, an optional validity   *)
(* Bitmap and a logical type.  Bitmaps are reference-counted views         *)
(* (buffer, offset, length) into shared storage; the model keeps the       *)
(* storage in a heap and derives every reference count from the handles    *)
(* that are alive.                                                         *)
(***************************************************************************)
EXTENDS Integers, Sequences, FiniteSets, TLC

\* Longest bitmap a caller hands to a constructor or to set_values.
MaxLen == 2
\* Number of BooleanArray values alive at once (array slots).
MaxArrays == 3
\* Number of calls made on the arrays once one is constructed.
MaxSteps == 2

Slots == 1..MaxArrays
\* Two bitmaps per array, one returned bitmap, two being allocated.
Bufs == 1..(2 * MaxArrays + 3)
DTypes == {"Boolean", "Int32"}
BitSeqs == UNION {[1..n -> BOOLEAN] : n \in 0..MaxLen}
\* The closures handed to apply_values_mut.
Fns == {"not", "push", "clear"}

\* Option<T>: None is the empty tuple, Some(x) the one-element tuple.
None == <<>>
Some(x) == <<x>>
OptBitSeqs == {None} \cup {Some(b) : b \in BitSeqs}
\* The bitmaps handed to set_values and with_values: all-set, of every length.
SetSeqs == {[i \in 1..n |-> TRUE] : n \in 0..MaxLen}

Min(S) == CHOOSE x \in S : \A y \in S : x <= y

VARIABLES
    heap,     \* buffer id -> the bits of the shared storage
    arrs,     \* slot -> Option<BooleanArray>
    mutable,  \* Option<MutableBooleanArray> handed out by into_mut
    ret,      \* Option<Bitmap> returned by true_and_valid / true_or_valid
    last,     \* the last call: its name, slot, arguments and outcome
    steps     \* calls made since the last construction

vars == <<heap, arrs, mutable, ret, last, steps>>

----------------------------------------------------------------------------
(* Bitmap: a view into shared storage.                                     *)

Bitmap(buf, offset, length) == [buf |-> buf, offset |-> offset, length |-> length]

\* The bits a handle shows, in heap h.
bits(h, bm) == SubSeq(h[bm.buf], bm.offset + 1, bm.offset + bm.length)

\* Bitmap::get_bit, i counted from 0.
get_bit(h, bm, i) == h[bm.buf][bm.offset + i + 1]

\* Bitmap::unset_bits: the number of zero bits of the view.
unset_bits(h, bm) == Cardinality({i \in 1..bm.length : ~bits(h, bm)[i]})

\* Bitmap::sliced_unchecked / slice_unchecked: same storage, moved window.
sliced_unchecked(bm, offset, length) ==
    Bitmap(bm.buf, bm.offset + offset, length)

\* Bitmap::split_at_unchecked: two views of the same storage.
bitmap_split_at_unchecked(bm, offset) ==
    <<Bitmap(bm.buf, bm.offset, offset),
      Bitmap(bm.buf, bm.offset + offset, bm.length - offset)>>

\* Option<Bitmap>::split_at_unchecked.
option_split_at_unchecked(v, offset) ==
    IF v = None THEN <<None, None>>
    ELSE <<Some(bitmap_split_at_unchecked(v[1], offset)[1]),
           Some(bitmap_split_at_unchecked(v[1], offset)[2])>>

\* The storages of the live handles: arrays A and returned bitmap r.
Used(A, r) ==
    {A[s][1].values.buf : s \in {x \in Slots : A[x] # None}}
    \cup {A[s][1].validity[1].buf : s \in {x \in Slots : A[x] # None /\ A[x][1].validity # None}}
    \cup {r[i].buf : i \in 1..Len(r)}

\* The number of live handles on buffer b: the storage's reference count.
RefCount(A, r, b) ==
    Cardinality({s \in Slots : A[s] # None /\ A[s][1].values.buf = b})
    + Cardinality({s \in Slots : A[s] # None /\ A[s][1].validity # None
                                  /\ A[s][1].validity[1].buf = b})
    + (IF r # None /\ r[1].buf = b THEN 1 ELSE 0)

\* Storage is reclaimed when its last holder drops it.
Collect(h, A, r) ==
    LET used == Used(A, r)
    IN [b \in Bufs |-> IF b \in used THEN h[b] ELSE <<>>]

\* Bitmap::new / Bitmap::default: an empty bitmap on storage buf.
Bitmap_new(buf) == Bitmap(buf, 0, 0)

\* Bitmap::new_zeroed.
new_zeroed(length) == [i \in 1..length |-> FALSE]

\* Bitmap::into_mut: the mutable bits when this handle is the only holder
\* (reference count rc), else the handle itself.
bitmap_into_mut(h, bm, rc) ==
    IF rc = 1 THEN [left |-> FALSE, m |-> bits(h, bm)]
    ELSE [left |-> TRUE, bm |-> bm]

\* Bitmap::make_mut: the bits to mutate, in place when uniquely owned and in a
\* copy otherwise; buf is the storage the mutation is written to.
make_mut(h, bm, rc, fresh) ==
    [buf |-> IF rc = 1 THEN bm.buf ELSE fresh, m |-> bits(h, bm)]

\* The closure f applied to a MutableBitmap.
ApplyF(f, m) ==
    CASE f = "not" -> [i \in 1..Len(m) |-> ~m[i]]
      [] f = "push" -> Append(m, TRUE)
      [] f = "clear" -> <<>>

\* combine_validities_and / combine_validities_or on two present bitmaps.
combine_validities_and(l, r) == Some([i \in 1..Len(l) |-> l[i] /\ r[i]])
combine_validities_or(l, r) == Some([i \in 1..Len(l) |-> l[i] \/ r[i]])

\* ArrowDataType::to_physical_type.
to_physical_type(dtype) == IF dtype = "Boolean" THEN "Boolean" ELSE "Primitive"


\* MutableBooleanArray::try_new(..).unwrap() on bitmaps of equal length.
MutableBooleanArray(dtype, values, validity) ==
    [dtype |-> dtype, values |-> values, validity |-> validity]

----------------------------------------------------------------------------
(* BooleanArray.                                                           *)

Ok(v) == [ok |-> TRUE, val |-> v]
Err(e) == [ok |-> FALSE, err |-> e]
Returns(v) == [panic |-> FALSE, val |-> v]
Panics == [panic |-> TRUE]

ErrValidity == "validity mask length must match the number of values"
ErrDtype == "BooleanArray can only be initialized with a DataType whose physical type is Boolean"

\* try_new with the validity check written as "shorter than" instead of "differs".
try_new_short(dtype, values, validity) ==
    IF validity # None /\ validity[1].length < values.length
    THEN Err(ErrValidity)
    ELSE IF to_physical_type(dtype) # "Boolean"
    THEN Err(ErrDtype)
    ELSE Ok([dtype |-> dtype, values |-> values, validity |-> validity])

try_new(dtype, values, validity) ==
    IF validity # None /\ validity[1].length # values.length
    THEN Err(ErrValidity)
    ELSE IF to_physical_type(dtype) # "Boolean"
    THEN Err(ErrDtype)
    ELSE Ok([dtype |-> dtype, values |-> values, validity |-> validity])

\* Self::try_new(..).unwrap()
new(dtype, values, validity) ==
    IF try_new(dtype, values, validity).ok
    THEN Returns(try_new(dtype, values, validity).val)
    ELSE Panics

\* new_empty: Self::new(dtype, Bitmap::new(), None), the bitmap on storage buf.
new_empty(dtype, buf) == new(dtype, Bitmap_new(buf), None)

\* new_null: one zeroed bitmap on storage buf, cloned into values and validity.
new_null(dtype, length, buf) ==
    new(dtype, Bitmap(buf, 0, length), Some(Bitmap(buf, 0, length)))

len(self) == self.values.length

\* BooleanArray::iter: ZipValidity of the values and the optional validity.
iter(h, self) ==
    [i \in 1..len(self) |->
        IF self.validity # None /\ ~get_bit(h, self.validity[1], i - 1)
        THEN None
        ELSE Some(get_bit(h, self.values, i - 1))]

value(h, self, i) == get_bit(h, self.values, i)

\* Array::is_null
is_null(h, self, i) == self.validity # None /\ ~get_bit(h, self.validity[1], i)

get(h, self, i) ==
    IF ~is_null(h, self, i) THEN Some(value(h, self, i)) ELSE None

\* slice_unchecked that slices the values from the start, dropping the offset.
slice_unchecked_no_offset(h, self, offset, length) ==
    [self EXCEPT
        !.validity =
            IF self.validity = None THEN None
            ELSE IF unset_bits(h, sliced_unchecked(self.validity[1], offset, length)) > 0
                 THEN Some(sliced_unchecked(self.validity[1], offset, length))
                 ELSE None,
        !.values = sliced_unchecked(self.values, 0, length)]

\* slice_unchecked without the filter on unset_bits.
slice_unchecked_no_filter(h, self, offset, length) ==
    [self EXCEPT
        !.validity =
            IF self.validity = None THEN None
            ELSE Some(sliced_unchecked(self.validity[1], offset, length)),
        !.values = sliced_unchecked(self.values, offset, length)]

slice_unchecked(h, self, offset, length) ==
    [self EXCEPT
        !.validity =
            IF self.validity = None THEN None
            ELSE IF unset_bits(h, sliced_unchecked(self.validity[1], offset, length)) > 0
                 THEN Some(sliced_unchecked(self.validity[1], offset, length))
                 ELSE None,
        !.values = sliced_unchecked(self.values, offset, length)]

slice(h, self, offset, length) ==
    IF offset + length <= len(self)
    THEN Returns(slice_unchecked(h, self, offset, length))
    ELSE Panics

\* set_values without the assertion on the length.
set_values_unchecked(self, values) ==
    Returns([self EXCEPT !.values = values])

set_values(self, values) ==
    IF values.length = len(self)
    THEN Returns([self EXCEPT !.values = values])
    ELSE Panics

\* with_values: set_values on a clone of self.
with_values(self, values) == set_values(self, values)

\* apply_values_mut that always mutates the storage it was given, shared or not.
apply_values_mut_in_place(h, self, f, rc, fresh, dflt) ==
    LET out == ApplyF(f, bits(h, self.values))
    IN IF self.validity # None /\ self.validity[1].length # Len(out)
       THEN [panic |-> TRUE,
             self |-> [self EXCEPT !.values = Bitmap_new(dflt)],
             heap |-> [h EXCEPT ![dflt] = <<>>]]
       ELSE [panic |-> FALSE,
             self |-> [self EXCEPT !.values = Bitmap(self.values.buf, 0, Len(out))],
             heap |-> [h EXCEPT ![self.values.buf] = out]]

\* apply_values_mut: rc is the reference count of the values' storage, fresh
\* the storage of a copy, dflt the storage of the bitmap mem::take leaves.
apply_values_mut(h, self, f, rc, fresh, dflt) ==
    LET m == make_mut(h, self.values, rc, fresh)
        out == ApplyF(f, m.m)
    IN IF self.validity # None /\ self.validity[1].length # Len(out)
       THEN [panic |-> TRUE,
             self |-> [self EXCEPT !.values = Bitmap_new(dflt)],
             heap |-> [h EXCEPT ![dflt] = <<>>]]
       ELSE [panic |-> FALSE,
             self |-> [self EXCEPT !.values = Bitmap(m.buf, 0, Len(out))],
             heap |-> [h EXCEPT ![m.buf] = out]]

Left(r, h) == [left |-> TRUE, panic |-> r.panic, arr |-> IF r.panic THEN None ELSE Some(r.val), heap |-> h]
Right(m) == [left |-> FALSE, panic |-> FALSE, m |-> m]

\* into_mut that, without a validity, hands out the values whoever holds them.
into_mut_unshared(h, self, rc) ==
    IF self.validity # None
    THEN LET bitmap == bitmap_into_mut(h, self.validity[1], rc[self.validity[1].buf])
         IN IF bitmap.left
            THEN Left(new(self.dtype, self.values, Some(bitmap.bm)), h)
            ELSE LET vals == bitmap_into_mut(h, self.values, rc[self.values.buf])
                     vbuf == self.validity[1].buf
                 IN IF vals.left
                    THEN Left(new(self.dtype, vals.bm,
                                  Some(Bitmap(vbuf, 0, Len(bitmap.m)))),
                              [h EXCEPT ![vbuf] = bitmap.m])
                    ELSE Right(MutableBooleanArray(self.dtype, vals.m, Some(bitmap.m)))
    ELSE Right(MutableBooleanArray(self.dtype, bits(h, self.values), None))

\* into_mut: rc gives every storage's reference count.
into_mut(h, self, rc) ==
    IF self.validity # None
    THEN LET bitmap == bitmap_into_mut(h, self.validity[1], rc[self.validity[1].buf])
         IN IF bitmap.left
            THEN Left(new(self.dtype, self.values, Some(bitmap.bm)), h)
            ELSE LET vals == bitmap_into_mut(h, self.values, rc[self.values.buf])
                     vbuf == self.validity[1].buf
                 IN IF vals.left
                    THEN Left(new(self.dtype, vals.bm,
                                  Some(Bitmap(vbuf, 0, Len(bitmap.m)))),
                              [h EXCEPT ![vbuf] = bitmap.m])
                    ELSE Right(MutableBooleanArray(self.dtype, vals.m, Some(bitmap.m)))
    ELSE LET vals == bitmap_into_mut(h, self.values, rc[self.values.buf])
         IN IF vals.left
            THEN Left(new(self.dtype, vals.bm, None), h)
            ELSE Right(MutableBooleanArray(self.dtype, vals.m, None))

\* From<MutableBooleanArray> for BooleanArray: the two buffers become bitmaps.
freeze(h, m, b1, b2) ==
    [arr |-> [dtype |-> m.dtype,
              values |-> Bitmap(b1, 0, Len(m.values)),
              validity |-> IF m.validity = None THEN None
                           ELSE Some(Bitmap(b2, 0, Len(m.validity[1])))],
     heap |-> [h EXCEPT ![b1] = m.values,
                        ![b2] = IF m.validity = None THEN <<>> ELSE m.validity[1]]]

\* true_and_valid that returns the values whatever the validity.
true_and_valid_values(h, self, fresh) ==
    [bm |-> self.values, heap |-> h]

true_and_valid(h, self, fresh) ==
    IF self.validity = None
    THEN [bm |-> self.values, heap |-> h]
    ELSE [bm |-> Bitmap(fresh, 0, len(self)),
          heap |-> [h EXCEPT ![fresh] =
              combine_validities_and(bits(h, self.values), bits(h, self.validity[1]))[1]]]

true_or_valid(h, self, fresh) ==
    IF self.validity = None
    THEN [bm |-> self.values, heap |-> h]
    ELSE [bm |-> Bitmap(fresh, 0, len(self)),
          heap |-> [h EXCEPT ![fresh] =
              combine_validities_or(bits(h, self.values), bits(h, self.validity[1]))[1]]]

check_bound(self, offset) == offset <= len(self)

\* _split_at_unchecked that gives the right half the left half's validity.
split_at_unchecked_lhs_validity(self, offset) ==
    <<[dtype |-> self.dtype,
       values |-> bitmap_split_at_unchecked(self.values, offset)[1],
       validity |-> option_split_at_unchecked(self.validity, offset)[1]],
      [dtype |-> self.dtype,
       values |-> bitmap_split_at_unchecked(self.values, offset)[2],
       validity |-> option_split_at_unchecked(self.validity, offset)[1]]>>

split_at_unchecked(self, offset) ==
    <<[dtype |-> self.dtype,
       values |-> bitmap_split_at_unchecked(self.values, offset)[1],
       validity |-> option_split_at_unchecked(self.validity, offset)[1]],
      [dtype |-> self.dtype,
       values |-> bitmap_split_at_unchecked(self.values, offset)[2],
       validity |-> option_split_at_unchecked(self.validity, offset)[2]]>>

\* Splitable::split_at: the bound is asserted, then the unchecked split.
split_at(self, offset) ==
    IF check_bound(self, offset)
    THEN Returns(split_at_unchecked(self, offset))
    ELSE Panics

----------------------------------------------------------------------------
(* The calls of a program: it constructs an array, then works on it and on *)
(* the arrays derived from it.  A panic ends the program.                  *)

Live(s) == arrs[s] # None
FreeSlots == {s \in Slots : arrs[s] = None}
NothingAlive == FreeSlots = Slots /\ mutable = None /\ ret = None
Running == last.outcome # "panic"
CanCall == Running /\ steps < MaxSteps

RC == [b \in Bufs |-> RefCount(arrs, ret, b)]
FreeBufs == Bufs \ Used(arrs, ret)
Fresh1 == Min(FreeBufs)
Fresh2 == Min(FreeBufs \ {Fresh1})

Call(op, slot, args, outcome) ==
    [op |-> op, slot |-> slot, args |-> args, outcome |-> outcome]

\* The call recorded: a panic ends the program, whatever the arguments were.
Done(op, slot, args, r) ==
    IF r.panic THEN Call(op, slot, <<>>, "panic") ELSE Call(op, slot, args, "ok")

Init ==
    /\ heap = [b \in Bufs |-> <<>>]
    /\ arrs = [s \in Slots |-> None]
    /\ mutable = None
    /\ ret = None
    /\ last = Call("init", 0, <<>>, "ok")
    /\ steps = 0

\* The caller's bitmaps: values on Fresh1, validity (if any) on Fresh2.
InValues(vbits) == Bitmap(Fresh1, 0, Len(vbits))
InValidity(val) == IF val = None THEN None ELSE Some(Bitmap(Fresh2, 0, Len(val[1])))
InHeap(vbits, val) ==
    [heap EXCEPT ![Fresh1] = vbits, ![Fresh2] = IF val = None THEN <<>> ELSE val[1]]

TryNew(dtype, vbits, val) ==
    /\ Running /\ NothingAlive
    /\ LET r == try_new(dtype, InValues(vbits), InValidity(val))
       IN /\ arrs' = [arrs EXCEPT ![1] = IF r.ok THEN Some(r.val) ELSE None]
          /\ last' = Call("try_new", 1, <<>>, IF r.ok THEN "ok" ELSE r.err)
          /\ heap' = Collect(InHeap(vbits, val), arrs', ret)
    /\ steps' = 0
    /\ UNCHANGED <<mutable, ret>>

New(dtype, vbits, val) ==
    /\ Running /\ NothingAlive
    /\ LET r == new(dtype, InValues(vbits), InValidity(val))
       IN /\ arrs' = [arrs EXCEPT ![1] = IF r.panic THEN None ELSE Some(r.val)]
          /\ last' = Done("new", 1, <<>>, r)
          /\ heap' = Collect(InHeap(vbits, val), arrs', ret)
    /\ steps' = 0
    /\ UNCHANGED <<mutable, ret>>

NewEmpty(dtype) ==
    /\ Running /\ NothingAlive
    /\ LET r == new_empty(dtype, Fresh1)
       IN /\ arrs' = [arrs EXCEPT ![1] = IF r.panic THEN None ELSE Some(r.val)]
          /\ last' = Done("new_empty", 1, <<>>, r)
          /\ heap' = Collect([heap EXCEPT ![Fresh1] = <<>>], arrs', ret)
    /\ steps' = 0
    /\ UNCHANGED <<mutable, ret>>

NewNull(dtype, length) ==
    /\ Running /\ NothingAlive
    /\ LET r == new_null(dtype, length, Fresh1)
       IN /\ arrs' = [arrs EXCEPT ![1] = IF r.panic THEN None ELSE Some(r.val)]
          /\ last' = Done("new_null", 1, <<>>, r)
          /\ heap' = Collect([heap EXCEPT ![Fresh1] = new_zeroed(length)], arrs', ret)
    /\ steps' = 0
    /\ UNCHANGED <<mutable, ret>>

\* #[derive(Clone)]: the clone holds the same two storages.
Clone(s) ==
    /\ CanCall /\ Live(s) /\ FreeSlots # {}
    /\ arrs' = [arrs EXCEPT ![Min(FreeSlots)] = arrs[s]]
    /\ last' = Call("clone", s, <<Min(FreeSlots)>>, "ok")
    /\ steps' = steps + 1
    /\ UNCHANGED <<heap, mutable, ret>>

Drop(s) ==
    /\ CanCall /\ Live(s)
    /\ arrs' = [arrs EXCEPT ![s] = None]
    /\ last' = Call("drop", s, <<>>, "ok")
    /\ heap' = Collect(heap, arrs', ret)
    /\ steps' = steps + 1
    /\ UNCHANGED <<mutable, ret>>

DropRet ==
    /\ CanCall /\ ret # None
    /\ ret' = None
    /\ last' = Call("drop_ret", 0, <<>>, "ok")
    /\ heap' = Collect(heap, arrs, ret')
    /\ steps' = steps + 1
    /\ UNCHANGED <<arrs, mutable>>

Slice(s, offset, length) ==
    /\ CanCall /\ Live(s)
    /\ LET r == slice(heap, arrs[s][1], offset, length)
       IN /\ arrs' = [arrs EXCEPT ![s] = IF r.panic THEN @ ELSE Some(r.val)]
          /\ last' = Done("slice", s, <<offset, length>>, r)
          /\ heap' = Collect(heap, arrs', ret)
    /\ steps' = steps + 1
    /\ UNCHANGED <<mutable, ret>>

SplitAt(s, offset) ==
    /\ CanCall /\ Live(s) /\ Cardinality(FreeSlots) >= 2
    /\ LET r == split_at(arrs[s][1], offset)
           d1 == Min(FreeSlots)
           d2 == Min(FreeSlots \ {d1})
       IN /\ arrs' = IF r.panic THEN arrs
                     ELSE [arrs EXCEPT ![d1] = Some(r.val[1]), ![d2] = Some(r.val[2])]
          /\ last' = Done("split_at", s, <<offset, d1, d2>>, r)
    /\ steps' = steps + 1
    /\ UNCHANGED <<heap, mutable, ret>>

SetValues(s, vbits) ==
    /\ CanCall /\ Live(s)
    /\ LET r == set_values(arrs[s][1], InValues(vbits))
       IN /\ arrs' = [arrs EXCEPT ![s] = IF r.panic THEN @ ELSE Some(r.val)]
          /\ last' = Done("set_values", s, <<vbits>>, r)
          /\ heap' = Collect(InHeap(vbits, None), arrs', ret)
    /\ steps' = steps + 1
    /\ UNCHANGED <<mutable, ret>>

WithValues(s, vbits) ==
    /\ CanCall /\ Live(s) /\ FreeSlots # {}
    /\ LET r == with_values(arrs[s][1], InValues(vbits))
       IN /\ arrs' = [arrs EXCEPT ![Min(FreeSlots)] = IF r.panic THEN @ ELSE Some(r.val)]
          /\ last' = Done("with_values", s, <<vbits, Min(FreeSlots)>>, r)
          /\ heap' = Collect(InHeap(vbits, None), arrs', ret)
    /\ steps' = steps + 1
    /\ UNCHANGED <<mutable, ret>>

ApplyValuesMut(s, f) ==
    /\ CanCall /\ Live(s)
    /\ LET r == apply_values_mut(heap, arrs[s][1], f,
                                 RC[arrs[s][1].values.buf], Fresh1, Fresh2)
       IN /\ arrs' = [arrs EXCEPT ![s] = Some(r.self)]
          /\ last' = Done("apply_values_mut", s, <<f>>, r)
          /\ heap' = Collect(r.heap, arrs', ret)
    /\ steps' = steps + 1
    /\ UNCHANGED <<mutable, ret>>

\* into_mut consumes the array: the slot gets the immutable array back, or
\* the caller holds the mutable one.
IntoMut(s) ==
    /\ CanCall /\ Live(s) /\ mutable = None
    /\ LET r == into_mut(heap, arrs[s][1], RC)
       IN /\ arrs' = [arrs EXCEPT ![s] = IF r.left THEN r.arr ELSE None]
          /\ mutable' = IF r.left THEN None ELSE Some(r.m)
          /\ last' = Call("into_mut", s, <<>>,
                          IF r.panic THEN "panic" ELSE IF r.left THEN "left" ELSE "right")
          /\ heap' = Collect(IF r.left THEN r.heap ELSE heap, arrs', ret)
    /\ steps' = steps + 1
    /\ UNCHANGED ret

Freeze ==
    /\ CanCall /\ mutable # None /\ FreeSlots # {}
    /\ LET r == freeze(heap, mutable[1], Fresh1, Fresh2)
       IN /\ arrs' = [arrs EXCEPT ![Min(FreeSlots)] = Some(r.arr)]
          /\ last' = Call("freeze", Min(FreeSlots), <<>>, "ok")
          /\ heap' = Collect(r.heap, arrs', ret)
    /\ mutable' = None
    /\ steps' = steps + 1
    /\ UNCHANGED ret

TrueAndValid(s) ==
    /\ CanCall /\ Live(s) /\ ret = None
    /\ LET r == true_and_valid(heap, arrs[s][1], Fresh1)
       IN /\ ret' = Some(r.bm)
          /\ heap' = Collect(r.heap, arrs, ret')
    /\ last' = Call("true_and_valid", s, <<>>, "ok")
    /\ steps' = steps + 1
    /\ UNCHANGED <<arrs, mutable>>

TrueOrValid(s) ==
    /\ CanCall /\ Live(s) /\ ret = None
    /\ LET r == true_or_valid(heap, arrs[s][1], Fresh1)
       IN /\ ret' = Some(r.bm)
          /\ heap' = Collect(r.heap, arrs, ret')
    /\ last' = Call("true_or_valid", s, <<>>, "ok")
    /\ steps' = steps + 1
    /\ UNCHANGED <<arrs, mutable>>

\* A program constructs when nothing is alive; the constructors' inputs.
NewInputs == IF NothingAlive THEN DTypes \X BitSeqs \X OptBitSeqs ELSE {}
NullInputs == IF NothingAlive THEN DTypes \X (0..MaxLen) ELSE {}
LiveSlots == Slots \ FreeSlots

Next ==
    \/ \E in \in NewInputs : TryNew(in[1], in[2], in[3])
    \/ \E in \in NewInputs : New(in[1], in[2], in[3])
    \/ \E dtype \in DTypes : NewEmpty(dtype)
    \/ \E in \in NullInputs : NewNull(in[1], in[2])
    \/ \E s \in LiveSlots : Clone(s)
    \/ \E s \in LiveSlots : Drop(s)
    \/ DropRet
    \/ \E s \in LiveSlots, offset \in 0..MaxLen, length \in 0..MaxLen : Slice(s, offset, length)
    \/ \E s \in LiveSlots, offset \in 0..(MaxLen + 1) : SplitAt(s, offset)
    \/ \E s \in LiveSlots, vbits \in SetSeqs : SetValues(s, vbits)
    \/ \E s \in LiveSlots, vbits \in SetSeqs : WithValues(s, vbits)
    \/ \E s \in LiveSlots, f \in Fns : ApplyValuesMut(s, f)
    \/ \E s \in LiveSlots : IntoMut(s)
    \/ Freeze
    \/ \E s \in LiveSlots : TrueAndValid(s)
    \/ \E s \in LiveSlots : TrueOrValid(s)

Spec == Init /\ [][Next]_vars

----------------------------------------------------------------------------
(* The properties.                                                         *)

ComputeErrors == {ErrValidity, ErrDtype}
\* The bits an optional bitmap shows.
optbits(h, v) == IF v = None THEN None ELSE Some(bits(h, v[1]))

\* C1: try_new never panics; it returns a ComputeError whenever the validity
\* is present with a length other than the values', and whenever the dtype's
\* physical type is not Boolean; otherwise it returns Ok with an array whose
\* len() is values.len() and whose values and validity are those passed in.
C1_TryNewContract ==
    [][last'.op = "try_new" =>
          \A in \in DTypes \X BitSeqs \X OptBitSeqs :
             TryNew(in[1], in[2], in[3]) =>
                LET mismatch == in[3] # None /\ Len(in[3][1]) # Len(in[2])
                    notbool == in[1] # "Boolean"
                IN /\ last'.outcome # "panic"
                   /\ mismatch => last'.outcome = ErrValidity /\ arrs'[1] = None
                   /\ notbool => last'.outcome \in ComputeErrors /\ arrs'[1] = None
                   /\ ~mismatch /\ ~notbool =>
                         /\ last'.outcome = "ok"
                         /\ arrs'[1] # None
                         /\ len(arrs'[1][1]) = Len(in[2])
                         /\ arrs'[1][1].dtype = in[1]
                         /\ bits(heap', arrs'[1][1].values) = in[2]
                         /\ optbits(heap', arrs'[1][1].validity) = in[3]]_vars

\* try_new has refused a validity of the wrong length and built nothing.
C1_Witness ==
    last.op = "try_new" /\ last.outcome = ErrValidity /\ arrs[1] = None

\* C2: in every state reached without a panic, an array whose validity is
\* Some has validity.len() = values.len().
C2_ValidityLength ==
    Running =>
        \A s \in Slots :
            arrs[s] # None /\ arrs[s][1].validity # None
                => arrs[s][1].validity[1].length = arrs[s][1].values.length

\* apply_values_mut has returned on an array that keeps a validity bitmap.
C2_Witness ==
    /\ last.op = "apply_values_mut" /\ last.outcome = "ok"
    /\ arrs[last.slot][1].validity # None
    /\ len(arrs[last.slot][1]) > 0

\* C3: for offset + length <= len(), slice(offset, length) returns and the
\* array's iter() is then original.iter().skip(offset).take(length).
C3_SliceContent ==
    [][last'.op = "slice" =>
          LET s == last'.slot
              old == arrs[s][1]
          IN IF last'.outcome = "panic"
             THEN \A o \in 0..MaxLen, l \in 0..MaxLen :
                      o + l <= len(old) => ~Slice(s, o, l)
             ELSE /\ last'.args[1] + last'.args[2] <= len(old)
                  /\ iter(heap', arrs'[s][1]) =
                        SubSeq(iter(heap, old), last'.args[1] + 1,
                               last'.args[1] + last'.args[2])]_vars

\* A slice at a non-zero offset that still holds a null and a value.
C3_Witness ==
    /\ last.op = "slice" /\ last.outcome = "ok" /\ last.args[1] > 0
    /\ arrs[last.slot][1].validity # None
    /\ \E i \in 1..len(arrs[last.slot][1]) : iter(heap, arrs[last.slot][1])[i] = None

\* C4: after slice(offset, length) with offset + length <= len(), a window
\* without a null slot leaves validity() = None, whatever it was before.
C4_SliceCollapse ==
    [][last'.op = "slice" /\ last'.outcome = "ok" =>
          LET s == last'.slot
              o == last'.args[1]
              l == last'.args[2]
          IN (\A i \in (o + 1)..(o + l) : iter(heap, arrs[s][1])[i] # None)
                => arrs'[s][1].validity = None]_vars

\* A slice lost its validity while a clone on the same storage keeps its own.
C4_Witness ==
    /\ last.op = "slice" /\ last.outcome = "ok"
    /\ arrs[last.slot][1].validity = None
    /\ \E t \in Slots \ {last.slot} :
          /\ arrs[t] # None /\ arrs[t][1].validity # None
          /\ arrs[t][1].values.buf = arrs[last.slot][1].values.buf

\* C5: for 0 <= k <= len(), split_at(k) returns arrays of lengths k and
\* len() - k whose iter() sequences, left then right, concatenate to the
\* original's; the original array is unchanged.
C5_SplitConcat ==
    [][last'.op = "split_at" =>
          LET s == last'.slot
              old == arrs[s][1]
          IN IF last'.outcome = "panic"
             THEN \A k \in 0..len(old) : ~SplitAt(s, k)
             ELSE LET k == last'.args[1]
                      lhs == arrs'[last'.args[2]][1]
                      rhs == arrs'[last'.args[3]][1]
                  IN /\ len(lhs) = k
                     /\ len(rhs) = len(old) - k
                     /\ iter(heap', lhs) \o iter(heap', rhs) = iter(heap, old)
                     /\ arrs'[s] = arrs[s]
                     /\ iter(heap', arrs'[s][1]) = iter(heap, old)]_vars

\* A split strictly inside an array with a null on each side.
C5_Witness ==
    /\ last.op = "split_at" /\ last.outcome = "ok"
    /\ last.args[1] > 0 /\ last.args[1] < len(arrs[last.slot][1])
    /\ arrs[last.args[2]][1].validity # None
    /\ iter(heap, arrs[last.args[2]][1])[1] = None
    /\ iter(heap, arrs[last.args[3]][1])[1] = None

\* The array is the only holder of its values and of its validity.
Unique(self) ==
    /\ RefCount(arrs, ret, self.values.buf) = 1
    /\ self.validity # None => RefCount(arrs, ret, self.validity[1].buf) = 1

\* A call on slot s changed nothing another holder reads.
OthersUnchanged(s) ==
    /\ \A t \in Slots \ {s} :
          /\ arrs'[t] = arrs[t]
          /\ arrs[t] # None =>
                /\ bits(heap', arrs[t][1].values) = bits(heap, arrs[t][1].values)
                /\ optbits(heap', arrs[t][1].validity) = optbits(heap, arrs[t][1].validity)
    /\ ret' = ret
    /\ ret # None => bits(heap', ret[1]) = bits(heap, ret[1])

C7_ApplyCopyOnWrite ==
    [][last'.op = "apply_values_mut" =>
          LET s == last'.slot
              old == arrs[s][1]
              was == bits(heap, old.values)
          IN IF last'.outcome = "panic"
             THEN \A f \in Fns :
                      Len(ApplyF(f, was)) = Len(was) => ~ApplyValuesMut(s, f)
             ELSE Len(ApplyF(last'.args[1], was)) = Len(was) =>
                      /\ bits(heap', arrs'[s][1].values) = ApplyF(last'.args[1], was)
                      /\ arrs'[s][1].validity = old.validity
                      /\ optbits(heap', old.validity) = optbits(heap, old.validity)
                      /\ arrs'[s][1].dtype = old.dtype
                      /\ OthersUnchanged(s)]_vars

\* apply_values_mut has flipped the values of an array while a clone, still
\* sharing its validity, reads the values as they were.
C7_Witness ==
    /\ last.op = "apply_values_mut" /\ last.outcome = "ok" /\ last.args = <<"not">>
    /\ len(arrs[last.slot][1]) > 0
    /\ \E t \in Slots \ {last.slot} :
          /\ arrs[t] # None /\ arrs[t][1].validity # None
          /\ arrs[t][1].validity = arrs[last.slot][1].validity
          /\ arrs[t][1].values.buf # arrs[last.slot][1].values.buf
          /\ bits(heap, arrs[t][1].values) =
                ApplyF("not", bits(heap, arrs[last.slot][1].values))

\* C8: apply_values_mut panics whenever f changes the length of the values,
\* with or without a validity; it never returns with another length.
C8_ApplyPanicsOnLengthChange ==
    [][last'.op = "apply_values_mut" /\ last'.outcome = "ok" =>
          LET s == last'.slot
              was == bits(heap, arrs[s][1].values)
          IN /\ Len(ApplyF(last'.args[1], was)) = Len(was)
             /\ len(arrs'[s][1]) = len(arrs[s][1])]_vars

\* C9: true_and_valid() has length len() and bit i set iff slot i is non-null
\* and value(i) is true, i.e. iff get(i) = Some(true); without a validity it
\* is the values bitmap.
C9_TrueAndValid ==
    last.op = "true_and_valid" =>
        LET self == arrs[last.slot][1]
        IN /\ ret # None
           /\ ret[1].length = len(self)
           /\ \A i \in 0..(len(self) - 1) :
                 /\ get_bit(heap, ret[1], i) = (~is_null(heap, self, i) /\ value(heap, self, i))
                 /\ get_bit(heap, ret[1], i) = (get(heap, self, i) = Some(TRUE))
           /\ self.validity = None => bits(heap, ret[1]) = bits(heap, self.values)

\* true_and_valid was taken of an array with a null slot whose value bit is set.
C9_Witness ==
    /\ last.op = "true_and_valid"
    /\ \E i \in 0..(len(arrs[last.slot][1]) - 1) :
          /\ is_null(heap, arrs[last.slot][1], i)
          /\ value(heap, arrs[last.slot][1], i)
          /\ ~get_bit(heap, ret[1], i)

\* C10: true_or_valid() has length len() and bit i set iff value(i) is true or
\* slot i is null; without a validity it is the values bitmap.
C10_TrueOrNull ==
    last.op = "true_or_valid" =>
        LET self == arrs[last.slot][1]
        IN /\ ret # None
           /\ ret[1].length = len(self)
           /\ \A i \in 0..(len(self) - 1) :
                 get_bit(heap, ret[1], i) = (value(heap, self, i) \/ is_null(heap, self, i))
           /\ self.validity = None => bits(heap, ret[1]) = bits(heap, self.values)

====
